---- MODULE Spec2Model ----
(***************************************************************************)
(* Model of MediaIntegrityChecker (src/src/media_integrity_checker.py) and *)
(* of main (src/src/main.py).                                              *)
(*                                                                         *)
(* Strings are sequences of one-character strings, so that splitext,       *)
(* lower(), slicing (s[:n]) and "\n".join act on characters.  A fixed      *)
(* literal of a message or of the report is one element of the sequence;   *)
(* none of the fixed literals holds a line break except where written.     *)
(***************************************************************************)
EXTENDS Integers, Sequences, FiniteSets, TLC

\* ------------------------------------------------------------------ bounds
\* Longest diagnostic text (str(e)) the environment produces.
MaxTextLen == 101
\* Largest frame count a decoder reports.
MaxFrameCount == 203
\* Number of changes the file system undergoes during a behaviour.
MaxChanges == 1

\* ------------------------------------------------------- program constants
\* str(e)[:100] in check_image_integrity / check_video_integrity
ExcTextLimit == 100
\* str(e)[:80] after a failed ffprobe
ProbeTextLimit == 80
\* middle sample: min(100, frame_count // 2)
MidFrameCap == 100
\* last sample: max(0, frame_count - 5)
TailOffset == 5
\* display path: kept whole up to 50 characters
PathWidth == 50
\* display path: last 47 characters after "..."
PathTail == 47

SUPPORTED_IMAGES ==
    { <<".", "j", "p", "g">>, <<".", "j", "p", "e", "g">>, <<".", "p", "n", "g">>,
      <<".", "g", "i", "f">>, <<".", "b", "m", "p">> }

SUPPORTED_VIDEOS ==
    { <<".", "m", "p", "4">>, <<".", "a", "v", "i">>, <<".", "m", "k", "v">>,
      <<".", "m", "o", "v">>, <<".", "f", "l", "v">> }

\* ----------------------------------------------------------------- strings
Min(a, b) == IF a <= b THEN a ELSE b
Max(a, b) == IF a >= b THEN a ELSE b

SetMax(S) == CHOOSE x \in S : \A y \in S : y <= x

Upper == <<"A", "B", "C", "D", "E", "F", "G", "H", "I", "J", "K", "L", "M",
           "N", "O", "P", "Q", "R", "S", "T", "U", "V", "W", "X", "Y", "Z">>
LowerLetters == <<"a", "b", "c", "d", "e", "f", "g", "h", "i", "j", "k", "l", "m",
                  "n", "o", "p", "q", "r", "s", "t", "u", "v", "w", "x", "y", "z">>

LowerChar(c) ==
    IF \E i \in 1..Len(Upper) : Upper[i] = c
    THEN LowerLetters[CHOOSE i \in 1..Len(Upper) : Upper[i] = c]
    ELSE c

\* str.lower()
Lower(s) == [i \in 1..Len(s) |-> LowerChar(s[i])]

\* s[:n]
Prefix(s, n) == SubSeq(s, 1, Min(n, Len(s)))

\* s[-n:]
Suffix(s, n) == SubSeq(s, Max(1, Len(s) - n + 1), Len(s))

\* n copies of c
Repeat(c, n) == [i \in 1..n |-> c]

\* f"{s:<n}"
PadRight(s, n) == IF Len(s) >= n THEN s ELSE s \o Repeat(" ", n - Len(s))

Digits == <<"0", "1", "2", "3", "4", "5", "6", "7", "8", "9">>

RECURSIVE NatToStr(_)
NatToStr(n) ==
    IF n < 10 THEN <<Digits[n + 1]>>
    ELSE NatToStr(n \div 10) \o <<Digits[(n % 10) + 1]>>

\* f"{n}" of an integer
IntToStr(n) == IF n < 0 THEN <<"-">> \o NatToStr(0 - n) ELSE NatToStr(n)

\* Number of line breaks in a string.
LineBreaks(s) == Cardinality({i \in 1..Len(s) : s[i] = "\n"})

\* Position of the last c in p, 0 when there is none.
LastIndex(p, c) ==
    IF \E i \in 1..Len(p) : p[i] = c
    THEN SetMax({i \in 1..Len(p) : p[i] = c})
    ELSE 0

\* The extension of p given the positions of its last "/" and last ".".
ExtAt(p, sep, dot) ==
    IF dot > sep /\ \E j \in (sep + 1)..(dot - 1) : p[j] # "."
    THEN SubSeq(p, dot, Len(p))
    ELSE <<>>

\* os.path.splitext(p)[1]: the part from the last dot of the last path
\* component, empty when that component has no dot or only leading dots.
SplitExt(p) == ExtAt(p, LastIndex(p, "/"), LastIndex(p, "."))

\* os.path.join(root, file)
Join(root, file) == root \o <<"/">> \o file

\* os.path.relpath(path, directory) for a path below directory
RelPath(path, directory) == SubSeq(path, Len(directory) + 2, Len(path))

\* ------------------------------------------------------ per-file results
\* The (is_ok, message) pair a checker returns, with the operations it
\* performed on the decode capability (steps) and the frame indices it
\* seeked to (sampled), in order.
Result(ok, message, steps, sampled) ==
    [ok |-> ok, message |-> message, steps |-> steps, sampled |-> sampled]

\* The three except clauses shared by both checkers; kind is the exception
\* raised ("notfound", "perm" or "error") and text its str(e).
ExceptMessage(kind, text, what) ==
    CASE kind = "notfound" -> <<"file not found">>
      [] kind = "perm"     -> <<"permission denied, cannot read file">>
      [] OTHER             -> <<"corrupt or unsupported ", what, " format: ">>
                                 \o Prefix(text, ExcTextLimit)

\* The extension test of lines 66-69.
FormatMismatch(file_ext, format) ==
    IF file_ext = <<".", "j", "p", "g">> THEN format # "JPEG"
    ELSE IF file_ext = <<".", "p", "n", "g">> THEN format # "PNG"
    ELSE FALSE

\* Lines 64-71: the format check on a decoded image.
ImageFormatStep(file_ext, format) ==
    IF FormatMismatch(file_ext, format)
    THEN Result(FALSE,
                <<"format mismatch: file suffix is ">> \o file_ext
                    \o <<", actual format is ", format>>,
                <<"open", "size", "load", "format">>, <<>>)
    ELSE Result(TRUE, <<"image normal">>, <<"open", "size", "load", "format">>, <<>>)

\* check_image_integrity with the full decode done before the size check.
check_image_load_first(file_path, img) ==
    IF img.open # "ok"
    THEN Result(FALSE, ExceptMessage(img.open, img.text, "image"), <<"open">>, <<>>)
    ELSE IF img.load # "ok"
    THEN Result(FALSE, ExceptMessage(img.load, img.text, "image"),
                <<"open", "load">>, <<>>)
    ELSE IF img.width <= 0 \/ img.height <= 0
    THEN Result(FALSE, <<"invalid image size: ">> \o IntToStr(img.width)
                           \o <<"x">> \o IntToStr(img.height),
                <<"open", "load", "size">>, <<>>)
    ELSE ImageFormatStep(Lower(SplitExt(file_path)), img.format)

\* check_image_integrity(file_path).  img is what the image library answers
\* for the file: [open, width, height, load, format, text], where open and
\* load are "ok" or the kind of exception raised and text is its str(e).
check_image_integrity(file_path, img) ==
    IF img.open # "ok"
    THEN Result(FALSE, ExceptMessage(img.open, img.text, "image"), <<"open">>, <<>>)
    ELSE IF img.width <= 0 \/ img.height <= 0
    THEN Result(FALSE, <<"invalid image size: ">> \o IntToStr(img.width)
                           \o <<"x">> \o IntToStr(img.height),
                <<"open", "size">>, <<>>)
    ELSE IF img.load # "ok"
    THEN Result(FALSE, ExceptMessage(img.load, img.text, "image"),
                <<"open", "size", "load">>, <<>>)
    ELSE ImageFormatStep(Lower(SplitExt(file_path)), img.format)

\* TestFrames with the last sample left unclamped: frame_count - 5.
TestFramesUnclamped(frame_count) ==
    << 0, Min(MidFrameCap, frame_count \div 2), frame_count - TailOffset >>

\* test_frames of line 126
TestFrames(frame_count) ==
    << 0, Min(MidFrameCap, frame_count \div 2), Max(0, frame_count - TailOffset) >>

\* What leaves the try body of lines 105-133: ret is "return" (ok, message)
\* or "raise"; cap tells whether cap was bound to a decode handle.
Outcome(ret, ok, message, cap, steps, sampled) ==
    [ret |-> ret, ok |-> ok, message |-> message, cap |-> cap,
     steps |-> steps, sampled |-> sampled]

\* The for loop of lines 127-131 from the i-th sample on.
RECURSIVE SampleFrames(_, _, _, _, _)
SampleFrames(video, duration, i, steps, sampled) ==
    IF i > Len(TestFrames(video.frame_count))
    THEN Outcome("return", TRUE,
                 <<"video normal (duration: ">> \o IntToStr(duration)
                     \o <<"s, resolution: ">> \o IntToStr(video.width) \o <<"x">>
                     \o IntToStr(video.height) \o <<", frames: ">>
                     \o IntToStr(video.frame_count) \o <<")">>,
                 TRUE, steps, sampled)
    ELSE IF video.reads[i] = "raise"
    THEN Outcome("raise", FALSE, <<>>, TRUE, steps \o <<"seek", "read">>,
                 Append(sampled, TestFrames(video.frame_count)[i]))
    ELSE IF video.reads[i] # "ok"
    THEN Outcome("return", FALSE,
                 <<"frame ">> \o IntToStr(TestFrames(video.frame_count)[i])
                     \o <<" read failed, video possibly corrupt">>,
                 TRUE, steps \o <<"seek", "read">>,
                 Append(sampled, TestFrames(video.frame_count)[i]))
    ELSE SampleFrames(video, duration, i + 1, steps \o <<"seek", "read">>,
                      Append(sampled, TestFrames(video.frame_count)[i]))

\* The try body of lines 105-133.
VideoDecode(video, duration) ==
    IF video.open = "raise"
    THEN Outcome("raise", FALSE, <<>>, FALSE, <<"VideoCapture">>, <<>>)
    ELSE IF video.open # "opened"
    THEN Outcome("return", FALSE, <<"cannot open video file, possibly corrupt">>,
                 TRUE, <<"VideoCapture", "acquire", "isOpened">>, <<>>)
    ELSE IF video.frame_count <= 0
    THEN Outcome("return", FALSE,
                 <<"invalid frame count: ">> \o IntToStr(video.frame_count),
                 TRUE, <<"VideoCapture", "acquire", "isOpened", "get">>, <<>>)
    ELSE IF video.fps <= 0
    THEN Outcome("return", FALSE, <<"invalid frame rate: ">> \o IntToStr(video.fps),
                 TRUE, <<"VideoCapture", "acquire", "isOpened", "get">>, <<>>)
    ELSE IF video.width <= 0 \/ video.height <= 0
    THEN Outcome("return", FALSE,
                 <<"invalid video size: ">> \o IntToStr(video.width)
                     \o <<"x">> \o IntToStr(video.height),
                 TRUE, <<"VideoCapture", "acquire", "isOpened", "get">>, <<>>)
    ELSE SampleFrames(video, duration, 1,
                      <<"VideoCapture", "acquire", "isOpened", "get">>, <<>>)

\* The finally clause of lines 141-143: the steps it adds.
Finally(cap) == IF cap THEN <<"release">> ELSE <<>>

\* VideoExit with the release before the returns instead of in a finally
\* clause: an exception skips it.
VideoExitNoFinally(video, steps, d) ==
    Result(d.ret = "return" /\ d.ok,
           IF d.ret = "raise"
           THEN ExceptMessage(video.exc.kind, video.exc.text, "video")
           ELSE d.message,
           steps \o d.steps \o (IF d.ret = "return" THEN Finally(d.cap) ELSE <<>>),
           d.sampled)

\* Lines 135-143: the except and finally clauses applied to what left the
\* try body; steps are those of the probe before it.
VideoExit(video, steps, d) ==
    Result(d.ret = "return" /\ d.ok,
           IF d.ret = "raise"
           THEN ExceptMessage(video.exc.kind, video.exc.text, "video")
           ELSE d.message,
           steps \o d.steps \o Finally(d.cap),
           d.sampled)

\* Lines 104-143: the decode stage.
VideoStage(video, duration, steps) ==
    VideoExit(video, steps, VideoDecode(video, duration))

\* check_video_integrity with a missing ffprobe handled like any other
\* probe failure.
check_video_probe_required(video) ==
    IF video.probe.kind # "ok"
    THEN Result(FALSE, <<"ffprobe check failed: ">>
                           \o Prefix(video.probe.text, ProbeTextLimit),
                <<"ffprobe">>, <<>>)
    ELSE IF video.probe.duration <= 0
    THEN Result(FALSE, <<"invalid video duration: ">>
                           \o IntToStr(video.probe.duration) \o <<"s">>,
                <<"ffprobe">>, <<>>)
    ELSE VideoStage(video, video.probe.duration, <<"ffprobe">>)

\* check_video_integrity(file_path).  video is what ffprobe and the decoder
\* answer for the file: probe is [kind |-> "missing" | "error" | "ok",
\* duration, text]; open is "raise", "closed" or "opened"; reads[i] is the
\* outcome of the i-th cap.read(): "ok", "fail" (ret false), "none" (no
\* frame) or "raise"; exc is the exception a raising decoder call raises.
check_video_integrity(video) ==
    IF video.probe.kind = "error"
    THEN Result(FALSE, <<"ffprobe check failed: ">>
                           \o Prefix(video.probe.text, ProbeTextLimit),
                <<"ffprobe">>, <<>>)
    ELSE IF video.probe.kind = "ok" /\ video.probe.duration <= 0
    THEN Result(FALSE, <<"invalid video duration: ">>
                           \o IntToStr(video.probe.duration) \o <<"s">>,
                <<"ffprobe">>, <<>>)
    ELSE VideoStage(video,
                    IF video.probe.kind = "ok" THEN video.probe.duration ELSE 0,
                    <<"ffprobe">>)

\* ------------------------------------------------------------ environment
\* The target directory and the files that can exist below it, in the order
\* os.walk lists them: the directory itself first, then its subdirectory.
\* Each file carries what the image library, ffprobe and the video decoder
\* answer for its content.
Directory == <<"/", "m">>
SubDirectory == Join(Directory, <<"s">>)
Dirs == <<Directory, SubDirectory>>

GoodImage(format) ==
    [open |-> "ok", width |-> 100, height |-> 100, load |-> "ok",
     format |-> format, text |-> <<>>]

GoodVideo ==
    [probe |-> [kind |-> "ok", duration |-> 2, text |-> <<>>],
     open |-> "opened", exc |-> [kind |-> "error", text |-> <<>>],
     frame_count |-> 60, fps |-> 30, width |-> 64, height |-> 48,
     reads |-> <<"ok", "ok", "ok">>]

Files ==
    << \* a well-formed JPEG
       [dir |-> 1, name |-> <<"a", ".", "j", "p", "g">>, img |-> GoodImage("JPEG")],
       \* not a media file
       [dir |-> 1, name |-> <<"n", ".", "t", "x", "t">>],
       \* a truncated video: the frame near the end cannot be read
       [dir |-> 1, name |-> <<"v", ".", "m", "p", "4">>,
        video |-> [GoodVideo EXCEPT !.reads = <<"ok", "ok", "fail">>]],
       \* a corrupt image whose decoder error spans two lines
       [dir |-> 2, name |-> <<"c", ".", "P", "N", "G">>,
        img |-> [GoodImage("PNG") EXCEPT !.open = "error",
                    !.text = <<"b", "a", "d", "\n", "E", "O", "F">>]] >>

FileIds == 1..Len(Files)

PathOf(f) == Join(Dirs[Files[f].dir], Files[f].name)

\* ------------------------------------------------------------------ state
VARIABLES
    dir_ok,         \* the target path is a directory
    present,        \* the files that exist now (indices of Files)
    changes,        \* file system changes so far
    phase,          \* "start", "live" (a checker exists), "rejected", "exited"
    self,           \* the checker's fields
    last_call,      \* the operation that returned last, "fs_change" after a change
    last_report,    \* the list generate_report returned last
    report_text,    \* content of the report file, <<>> before it is written
    saved,          \* the report file was written
    exit_status,    \* the process's exit status, -1 while it runs
    open_at_start,  \* decode handles open when each file's check began
    handles,        \* decode handles open now
    inp,            \* input of a checker applied on its own
    out             \* its result

vars == <<dir_ok, present, changes, phase, self, last_call, last_report,
          report_text, saved, exit_status, open_at_start, handles, inp, out>>

envVars == <<dir_ok, present, changes>>

\* What the libraries answer for a path now.
Exists(path) == \E f \in present : PathOf(f) = path

FileAt(path) == Files[CHOOSE f \in present : PathOf(f) = path]

ImageAnswer(path) ==
    IF Exists(path) THEN FileAt(path).img
    ELSE [GoodImage("") EXCEPT !.open = "notfound"]

\* ffprobe exits non-zero on a file it cannot read (CalledProcessError).
ProbeErrorText == <<"C", "o", "m", "m", "a", "n", "d", " ", "f", "a", "i", "l", "e", "d">>

VideoAnswer(path) ==
    IF Exists(path) THEN FileAt(path).video
    ELSE [GoodVideo EXCEPT !.open = "closed",
             !.probe = [kind |-> "error", duration |-> 0, text |-> ProbeErrorText]]

\* The names of the present files of directory d, in listing order.
IsListed(f, d) == f \in present /\ Files[f].dir = d

RECURSIVE ListingFrom(_, _)
ListingFrom(d, f) ==
    IF f > Len(Files) THEN <<>>
    ELSE (IF IsListed(f, d) THEN <<Files[f].name>> ELSE <<>>) \o ListingFrom(d, f + 1)

\* os.walk(directory): one (root, files) pair per directory, top down; a
\* path that is no directory yields nothing.
Walk == IF dir_ok
        THEN [d \in 1..Len(Dirs) |-> [root |-> Dirs[d], files |-> ListingFrom(d, 1)]]
        ELSE <<>>

\* ---------------------------------------------------------------- checker
\* __init__: the fields of a new checker.
NewChecker(recursive, report_file) ==
    [directory |-> Directory, recursive |-> recursive, report_file |-> report_file,
     media_files |-> <<>>, results |-> <<>>,
     total_count |-> 0, ok_count |-> 0, error_count |-> 0]

\* Line 41: the extension test of the scan.
SupportedExt(file_ext) == file_ext \in SUPPORTED_IMAGES \/ file_ext \in SUPPORTED_VIDEOS

\* Supported without lower(): extensions compared as written.
SupportedAsWritten(file) == SupportedExt(SplitExt(file))

Supported(file) == SupportedExt(Lower(SplitExt(file)))

\* The inner loop of scan_media_files over the files of one directory.
RECURSIVE MediaIn(_, _, _)
MediaIn(root, files, i) ==
    IF i > Len(files) THEN <<>>
    ELSE (IF Supported(files[i]) THEN <<Join(root, files[i])>> ELSE <<>>)
            \o MediaIn(root, files, i + 1)

\* The outer loop of scan_media_files from the i-th directory on.
RECURSIVE ScanFrom(_, _, _)
ScanFrom(walk, i, recursive) ==
    IF i > Len(walk) THEN <<>>
    ELSE MediaIn(walk[i].root, walk[i].files, 1)
            \o (IF recursive THEN ScanFrom(walk, i + 1, recursive) ELSE <<>>)

\* Lines 37 and 46: the fields after a scan that found the list.
Scanned(s, found) == [s EXCEPT !.media_files = found, !.total_count = Len(found)]

scan_media_files(s) == Scanned(s, ScanFrom(Walk, 1, s.recursive))

IsImage(file_path) == Lower(SplitExt(file_path)) \in SUPPORTED_IMAGES

\* The branch of lines 162-167 on one file.
CheckFile(file_path) ==
    IF IsImage(file_path)
    THEN check_image_integrity(file_path, ImageAnswer(file_path))
    ELSE check_video_integrity(VideoAnswer(file_path))

\* Lines 173-181: the result r of the i-th file is appended and counted.
Recorded(s, i, r) ==
    [s EXCEPT !.results = Append(@, [path |-> RelPath(s.media_files[i], s.directory),
                                     type |-> IF IsImage(s.media_files[i])
                                              THEN "IMAGE" ELSE "VIDEO",
                                     status |-> IF r.ok THEN "OK" ELSE "BAD",
                                     message |-> r.message]),
              !.ok_count = IF r.ok THEN @ + 1 ELSE @]

\* The loop of run_checks from the i-th file on.
RECURSIVE CheckFrom(_, _)
CheckFrom(s, i) ==
    IF i > Len(s.media_files) THEN s
    ELSE CheckFrom(Recorded(s, i, CheckFile(s.media_files[i])), i + 1)

\* Line 183
Counted(s) == [s EXCEPT !.error_count = s.total_count - s.ok_count]

\* Lines 150-183 of run_checks.
ChecksOn(s) ==
    IF s.media_files = <<>> THEN s
    ELSE Counted(CheckFrom([s EXCEPT !.results = <<>>, !.ok_count = 0], 1))

run_checks(s) ==
    IF s.media_files = <<>> THEN ChecksOn(scan_media_files(s)) ELSE ChecksOn(s)

\* display_path of line 204
DisplayPath(path) ==
    IF Len(path) <= PathWidth THEN path ELSE <<".", ".", ".">> \o Suffix(path, PathTail)

ReportRow(res) ==
    PadRight(DisplayPath(res.path), PathWidth) \o <<" ", res.type, " ", res.status, " ">>
        \o res.message

\* "=" * 80 and "-" * 80: fixed literals without a line break
RuleEq == "================"
RuleDash == "----------------"

\* generate_report without the rule that closes the table header.
generate_report_open_header(s) ==
    << <<RuleEq>>,
       <<"media file integrity report">>,
       <<RuleEq>>,
       <<"directory: ">> \o s.directory,
       <<"scan mode: ", IF s.recursive THEN "recursive" ELSE "current directory">>,
       <<"total: ">> \o IntToStr(s.total_count),
       <<"ok files: ">> \o IntToStr(s.ok_count),
       <<"bad files: ">> \o IntToStr(s.error_count),
       <<"\n", "details:">>,
       <<RuleDash>>,
       <<"path", " ", "type", " ", "status", " ", "message">> >>
    \o [i \in 1..Len(s.results) |-> ReportRow(s.results[i])]

generate_report(s) ==
    << <<RuleEq>>,
       <<"media file integrity report">>,
       <<RuleEq>>,
       <<"directory: ">> \o s.directory,
       <<"scan mode: ", IF s.recursive THEN "recursive" ELSE "current directory">>,
       <<"total: ">> \o IntToStr(s.total_count),
       <<"ok files: ">> \o IntToStr(s.ok_count),
       <<"bad files: ">> \o IntToStr(s.error_count),
       <<"\n", "details:">>,
       <<RuleDash>>,
       <<"path", " ", "type", " ", "status", " ", "message">>,
       <<RuleDash>> >>
    \o [i \in 1..Len(s.results) |-> ReportRow(s.results[i])]

\* "\n".join(report)
RECURSIVE JoinLines(_)
JoinLines(report) ==
    IF report = <<>> THEN <<>>
    ELSE IF Len(report) = 1 THEN report[1]
    ELSE report[1] \o <<"\n">> \o JoinLines(Tail(report))

\* Occurrences of step e in the steps st.
Count(st, e) == Cardinality({k \in 1..Len(st) : st[k] = e})

\* Decode handles left open by a check that performed the steps st.
Leaked(st) == Count(st, "acquire") - Count(st, "release")

\* Decode handles open when the check of each file of the list begins, given
\* h open before the first, and the number open after the last.
RECURSIVE HandlesFrom(_, _, _, _)
HandlesFrom(files, i, h, acc) ==
    IF i > Len(files) THEN [at_start |-> acc, after |-> h]
    ELSE HandlesFrom(files, i + 1, h + Leaked(CheckFile(files[i]).steps), Append(acc, h))

NoResult == Result(FALSE, <<>>, <<>>, <<>>)
NoInput == [path |-> <<>>]

\* ---------------------------------------------------------------- actions
Init ==
    /\ dir_ok \in BOOLEAN
    /\ present \in SUBSET FileIds
    /\ (dir_ok \/ present = {})
    /\ changes = 0
    /\ phase = "start"
    /\ self = NewChecker(FALSE, <<>>)
    /\ last_call = "none"
    /\ last_report = <<>>
    /\ report_text = <<>>
    /\ saved = FALSE
    /\ exit_status = -1
    /\ open_at_start = <<>>
    /\ handles = 0
    /\ inp = NoInput
    /\ out = NoResult

\* A file below the target directory is created or deleted.
Toggle(f) ==
    /\ phase = "live"
    /\ changes < MaxChanges
    /\ changes' = changes + 1
    /\ present' = IF f \in present THEN present \ {f} ELSE present \cup {f}
    /\ last_call' = "fs_change"
    /\ UNCHANGED <<dir_ok, phase, self, last_report, report_text,
                   saved, exit_status, open_at_start, handles, inp, out>>

\* MediaIntegrityChecker(directory, recursive, report_file) called by a
\* program that keeps the checker: raises ValueError unless the directory
\* is valid.
New(recursive, report_file) ==
    /\ phase = "start"
    /\ phase' = IF dir_ok THEN "live" ELSE "rejected"
    /\ self' = IF dir_ok THEN NewChecker(recursive, report_file) ELSE self
    /\ last_call' = "__init__"
    /\ UNCHANGED <<envVars, last_report, report_text, saved, exit_status,
                   open_at_start, handles, inp, out>>

ScanMediaFiles ==
    /\ phase = "live"
    /\ self' = scan_media_files(self)
    /\ last_call' = "scan_media_files"
    /\ UNCHANGED <<envVars, phase, last_report, report_text, saved, exit_status,
                   open_at_start, handles, inp, out>>

\* The decode handles after the loop of run_checks.
HandlesEffect(h) == open_at_start' = h.at_start /\ handles' = h.after

\* run_checks from the fields s (already scanned if need be): the fields
\* after it and the decode handles.
ChecksEffect(s) ==
    /\ self' = ChecksOn(s)
    /\ HandlesEffect(HandlesFrom(s.media_files, 1, handles, <<>>))

RunChecks ==
    /\ phase = "live"
    /\ IF self.media_files = <<>> THEN ChecksEffect(scan_media_files(self))
       ELSE ChecksEffect(self)
    /\ last_call' = "run_checks"
    /\ UNCHANGED <<envVars, phase, last_report, report_text, saved, exit_status, inp, out>>

GenerateReport ==
    /\ phase = "live"
    /\ last_report' = generate_report(self)
    /\ last_call' = "generate_report"
    /\ UNCHANGED <<envVars, phase, self, report_text, saved, exit_status,
                   open_at_start, handles, inp, out>>

\* The effect of save_report(report) on the report file.
SaveReportEffect(report_file, report) ==
    IF report_file # <<>>
    THEN report_text' = JoinLines(report) /\ saved' = TRUE
    ELSE UNCHANGED <<report_text, saved>>

\* save_report called with the list generate_report returned.
SaveReport ==
    /\ phase = "live"
    /\ last_report # <<>>
    /\ SaveReportEffect(self.report_file, last_report)
    /\ last_call' = "save_report"
    /\ UNCHANGED <<envVars, phase, self, last_report, exit_status,
                   open_at_start, handles, inp, out>>

\* Lines 229-235 of run: the report of the checked fields.
ReportEffect(report_file, report) ==
    /\ last_report' = report
    /\ SaveReportEffect(report_file, report)

\* Lines 221-235 of run, from the fields s just scanned.
RunScanned(s) ==
    IF s.media_files = <<>>
    THEN /\ self' = s
         /\ UNCHANGED <<last_report, report_text, saved, open_at_start, handles>>
    ELSE /\ ChecksEffect(s)
         /\ ReportEffect(s.report_file, generate_report(ChecksOn(s)))

\* The effect of run() on a checker with fields s.
RunEffect(s) == RunScanned(scan_media_files(s))

Run ==
    /\ phase = "live"
    /\ RunEffect(self)
    /\ last_call' = "run"
    /\ UNCHANGED <<envVars, phase, exit_status, inp, out>>

\* main() exiting with status 1 when a file failed its check.
MainFailsOnBadFiles(recursive, report_file) ==
    /\ phase = "start"
    /\ phase' = "exited"
    /\ last_call' = "main"
    /\ IF dir_ok
       THEN /\ RunEffect(NewChecker(recursive, report_file))
            /\ exit_status' = IF self'.error_count > 0 THEN 1 ELSE 0
       ELSE /\ exit_status' = 1
            /\ UNCHANGED <<self, last_report, report_text, saved, open_at_start, handles>>
    /\ UNCHANGED <<envVars, inp, out>>

\* main(): construct and run; exit(1) on ValueError, else fall off the end.
Main(recursive, report_file) ==
    /\ phase = "start"
    /\ phase' = "exited"
    /\ last_call' = "main"
    /\ IF dir_ok
       THEN /\ RunEffect(NewChecker(recursive, report_file))
            /\ exit_status' = 0
       ELSE /\ exit_status' = 1
            /\ UNCHANGED <<self, last_report, report_text, saved, open_at_start, handles>>
    /\ UNCHANGED <<envVars, inp, out>>

ReportFiles == { <<>>, <<"r", ".", "t", "x", "t">> }

Next ==
    \/ \E f \in FileIds : Toggle(f)
    \/ \E recursive \in BOOLEAN, report_file \in ReportFiles : New(recursive, report_file)
    \/ \E recursive \in BOOLEAN, report_file \in ReportFiles : Main(recursive, report_file)
    \/ ScanMediaFiles
    \/ RunChecks
    \/ Run
    \/ GenerateReport
    \/ SaveReport

Spec == Init /\ [][Next]_vars

\* ------------------------------------------- the checkers on their own
\* Diagnostic texts: n characters that tell their position, and one that
\* spans two lines.
Text(n) == [i \in 1..n |-> Digits[(i % 10) + 1]]

TextLens == {0, 3, ProbeTextLimit - 1, ProbeTextLimit, ProbeTextLimit + 1,
             ExcTextLimit, MaxTextLen}

Texts == {Text(n) : n \in TextLens} \cup { <<"b", "a", "d", "\n", "E", "O", "F">> }

ImageNames ==
    { <<"a", ".", "j", "p", "g">>, <<"a", ".", "J", "P", "G">>,
      <<"a", ".", "j", "p", "e", "g">>, <<"a", ".", "J", "p", "e", "g">>,
      <<"a", ".", "p", "n", "g">>, <<"a", ".", "P", "N", "G">>,
      <<"a", ".", "g", "i", "f">>, <<"a", ".", "b", "m", "p">> }

ImageAnswers ==
    [open : {"ok", "notfound", "perm", "error"}, width : {-1, 0, 100}, height : {0, 100},
     load : {"ok", "error"}, format : {"JPEG", "PNG", "GIF", "MPO"}, text : Texts]

ImageInputs == [path : {Join(Directory, n) : n \in ImageNames}, img : ImageAnswers]

Quiet ==
    /\ dir_ok = TRUE
    /\ present = {}
    /\ changes = 0
    /\ self = NewChecker(FALSE, <<>>)
    /\ last_call = "none"
    /\ last_report = <<>>
    /\ report_text = <<>>
    /\ saved = FALSE
    /\ exit_status = -1
    /\ open_at_start = <<>>
    /\ handles = 0

mainVars == <<dir_ok, present, changes, self, last_call, last_report, report_text,
              saved, exit_status, open_at_start, handles>>

InitImage ==
    /\ Quiet
    /\ phase = "input"
    /\ inp \in ImageInputs
    /\ out = NoResult

\* check_image_integrity is called on the input.
CheckImage ==
    /\ phase = "input"
    /\ phase' = "checked"
    /\ out' = check_image_integrity(inp.path, inp.img)
    /\ UNCHANGED <<mainVars, inp>>

NextImage == CheckImage

SpecImage == InitImage /\ [][NextImage]_vars

Probes ==
    { [kind |-> "missing", duration |-> 0, text |-> <<>>] }
    \cup [kind : {"ok"}, duration : {-1, 0, 2}, text : {<<>>}]
    \cup [kind : {"error"}, duration : {0}, text : Texts]

Excs == [kind : {"notfound", "perm", "error"}, text : {Text(3), Text(MaxTextLen)}]

ReadOutcomes == {"ok", "fail", "none", "raise"}

\* Every probe and open outcome; every metric on a video that opens; every
\* outcome of the three reads on a video of every length.
VideoInputs ==
    [probe : Probes, open : {"raise", "closed", "opened"}, exc : Excs,
     frame_count : {0, 60}, fps : {30}, width : {64}, height : {48},
     reads : {<<"ok", "ok", "ok">>}]
    \cup
    [probe : {p \in Probes : p.kind = "missing" \/ p.duration > 0}, open : {"opened"},
     exc : {[kind |-> "error", text |-> Text(3)]},
     frame_count : -1..MaxFrameCount, fps : {0, 30}, width : {0, 64}, height : {0, 48},
     reads : {<<"ok", "ok", "ok">>}]
    \cup
    [probe : {p \in Probes : p.kind = "missing" \/ p.duration > 0}, open : {"opened"},
     exc : {[kind |-> "error", text |-> Text(3)]},
     frame_count : 1..MaxFrameCount, fps : {30}, width : {64}, height : {48},
     reads : [1..3 -> ReadOutcomes]]

InitVideo ==
    /\ Quiet
    /\ phase = "input"
    /\ inp \in VideoInputs
    /\ out = NoResult

\* check_video_integrity is called on the input.
CheckVideo ==
    /\ phase = "input"
    /\ phase' = "checked"
    /\ out' = check_video_integrity(inp)
    /\ UNCHANGED <<mainVars, inp>>

NextVideo == CheckVideo

SpecVideo == InitVideo /\ [][NextVideo]_vars

\* ================================================================ claims
\* ---------------------------------------------------------------- C1
\* C1: whenever run() has returned (called directly or by main), the
\* checker's total_count equals ok_count + error_count.
C1_CountsAddUp ==
    last_call \in {"run", "main"} /\ phase # "start" /\ dir_ok
        => self.total_count = self.ok_count + self.error_count

\* ---------------------------------------------------------------- C3
\* C3: whenever run_checks() has returned, results holds exactly one entry
\* per scanned file, the i-th entry being that of the i-th scanned file.
C3_OneResultPerFile ==
    last_call = "run_checks"
        => /\ Len(self.results) = self.total_count
           /\ Len(self.results) = Len(self.media_files)
           /\ \A i \in 1..Len(self.results) :
                 self.results[i].path = RelPath(self.media_files[i], self.directory)

TextLines(text) == LineBreaks(text) + 1

\* Line breaks inside the rows of the results from the i-th on.
RECURSIVE RowBreaks(_, _)
RowBreaks(results, i) ==
    IF i > Len(results) THEN 0
    ELSE LineBreaks(results[i].path) + LineBreaks(results[i].message)
            + RowBreaks(results, i + 1)

\* C7 as claimed: the report list, and the text written from it, have 12
\* lines plus one per scanned file.
C7_TwelvePlusOnePerFile ==
    /\ last_call \in {"generate_report", "run"} /\ last_report # <<>>
          => Len(last_report) = 12 + self.total_count
    /\ last_call \in {"save_report", "run"} /\ saved
          => TextLines(report_text) = 12 + self.total_count

\* C7 amended: the list generate_report returns has 12 entries plus one
\* per element of results (one per scanned file when run() generates it);
\* the text save_report writes has one line more than the list has entries
\* (the ninth entry begins with a line break), plus one line per line break
\* contained in a row's path or message.
C7_EntriesAndLines ==
    /\ last_call = "generate_report"
          => Len(last_report) = 12 + Len(self.results)
    /\ last_call \in {"run", "main"} /\ self.media_files # <<>>
          => /\ Len(last_report) = 12 + self.total_count
             /\ Len(self.results) = self.total_count
             /\ self.report_file # <<>>
                   => /\ saved
                      /\ TextLines(report_text)
                            = 13 + self.total_count + RowBreaks(self.results, 1)
    /\ saved
          => \E n \in 0..Len(Files) :
                TextLines(report_text) >= 13 + n /\ Len(report_text) > 0
    /\ last_call = "save_report" /\ self.report_file # <<>>
          => TextLines(report_text) > Len(last_report)

\* C7 witness: run() wrote a report with a row whose message spans two lines.
C7_Witness ==
    last_call = "run" /\ saved /\ self.report_file # <<>>
        /\ self.media_files # <<>> /\ RowBreaks(self.results, 1) >= 1

\* ---------------------------------------------------------------- C8
\* A name ends in one of the supported extensions, whatever its case.
EndsInMediaExt(name) ==
    \E e \in SUPPORTED_IMAGES \cup SUPPORTED_VIDEOS :
        Len(name) > Len(e) /\ Lower(Suffix(name, Len(e))) = e

\* The files a scan is to find: present, with a media extension, and in the
\* root directory unless the scan is recursive.
Wanted == {f \in present : /\ EndsInMediaExt(Files[f].name)
                           /\ (self.recursive \/ Files[f].dir = 1)}

\* C8: whenever scan_media_files has returned, media_files lists exactly
\* the wanted files, each once, in traversal order, and total_count is its
\* length, whatever the list held before.
C8_ScanExact ==
    last_call = "scan_media_files"
        => /\ Len(self.media_files) = Cardinality(Wanted)
           /\ \A f \in Wanted : \E i \in 1..Len(self.media_files) :
                 self.media_files[i] = PathOf(f)
           /\ \A i, j \in 1..Len(self.media_files) :
                 i < j => \E f, g \in Wanted :
                             /\ f < g
                             /\ self.media_files[i] = PathOf(f)
                             /\ self.media_files[j] = PathOf(g)
           /\ self.total_count = Len(self.media_files)

\* C8 witness: a non-recursive rescan, after a change, of a tree holding
\* media files in the root and in the subdirectory and a non-media file.
C8_Witness ==
    last_call = "scan_media_files" /\ ~self.recursive /\ changes = 1
        /\ {1, 2, 4} \subseteq present /\ Len(self.media_files) = 1
        /\ Len(self.results) = 2

\* ---------------------------------------------------------------- C2
\* The image of the input decoded: it opened, has valid dimensions and its
\* pixel data loaded.
Decoded == inp.img.open = "ok" /\ inp.img.width > 0 /\ inp.img.height > 0
               /\ inp.img.load = "ok"

InpExt == Lower(SplitExt(inp.path))

\* C2: a decoded image with extension .jpg or .jpeg and a detected format
\* other than JPEG, or extension .png and a format other than PNG, yields
\* ok = false with a format-mismatch message naming extension and format.
C2_MismatchReported ==
    /\ phase = "checked"
    /\ Decoded
    /\ \/ InpExt \in {<<".", "j", "p", "g">>, <<".", "j", "p", "e", "g">>}
             /\ inp.img.format # "JPEG"
       \/ InpExt = <<".", "p", "n", "g">> /\ inp.img.format # "PNG"
    => /\ ~out.ok
       /\ out.message = <<"format mismatch: file suffix is ">> \o InpExt
                            \o <<", actual format is ", inp.img.format>>

\* ---------------------------------------------------------------- C9
\* msg is the literal lead followed by the first limit characters of text.
IsTruncated(msg, lead, text, limit) ==
    /\ Len(msg) = Len(lead) + (IF Len(text) < limit THEN Len(text) ELSE limit)
    /\ \A i \in 1..Len(lead) : msg[i] = lead[i]
    /\ \A i \in (Len(lead) + 1)..Len(msg) : msg[i] = text[i - Len(lead)]

\* The message of a failed open or load of the given kind.
IsOpenFailure(msg, kind, text) ==
    CASE kind = "notfound" -> msg = <<"file not found">>
      [] kind = "perm" -> msg = <<"permission denied, cannot read file">>
      [] OTHER -> IsTruncated(msg, <<"corrupt or unsupported ", "image", " format: ">>,
                              text, 100)

\* C9: check_image_integrity opens, then checks the dimensions, then
\* decodes fully, then compares the format; the first failing step decides
\* the result, the full decode is not attempted on invalid dimensions and
\* the format is compared only after a successful full decode.
C9_ImageStepOrder ==
    phase = "checked" =>
        /\ inp.img.open # "ok"
              => /\ ~out.ok /\ out.steps = <<"open">>
                 /\ IsOpenFailure(out.message, inp.img.open, inp.img.text)
        /\ inp.img.open = "ok" /\ (inp.img.width <= 0 \/ inp.img.height <= 0)
              => /\ ~out.ok /\ out.steps = <<"open", "size">>
                 /\ out.message[1] = "invalid image size: "
        /\ inp.img.open = "ok" /\ inp.img.width > 0 /\ inp.img.height > 0
              /\ inp.img.load # "ok"
              => /\ ~out.ok /\ out.steps = <<"open", "size", "load">>
                 /\ IsOpenFailure(out.message, inp.img.load, inp.img.text)
        /\ Decoded
              => /\ out.steps = <<"open", "size", "load", "format">>
                 /\ IF out.ok THEN out.message = <<"image normal">>
                    ELSE out.message[1] = "format mismatch: file suffix is "

\* C9 witness: an image with invalid dimensions whose pixel data would not
\* load either is reported for its dimensions.
C9_Witness ==
    phase = "checked" /\ inp.img.open = "ok" /\ inp.img.width = 0
        /\ inp.img.load = "error" /\ out.steps = <<"open", "size">>

\* ---------------------------------------------------------------- C4
\* The probe did not end the check: the decoder was opened next.
DecoderTried == Len(out.steps) >= 2 /\ out.steps[1] = "ffprobe"
                    /\ out.steps[2] = "VideoCapture"

\* The video of the input passes every step after the probe.
DecodesWell ==
    /\ inp.open = "opened"
    /\ inp.frame_count > 0 /\ inp.fps > 0 /\ inp.width > 0 /\ inp.height > 0
    /\ \A i \in 1..3 : inp.reads[i] = "ok"

\* C4: without the probe tool the check goes on to the decoder with
\* duration 0 and succeeds exactly when the decoder steps do; a probed
\* duration <= 0 fails at once with the invalid-duration message; any other
\* probe failure fails at once with a message holding the first 80
\* characters of the diagnostic; in both failures the decoder is not opened.
C4_ProbeOutcomes ==
    phase = "checked" =>
        /\ inp.probe.kind = "missing"
              => /\ DecoderTried
                 /\ out.ok = DecodesWell
                 /\ out.ok => out.message[2] = "0"
        /\ inp.probe.kind = "ok" /\ inp.probe.duration <= 0
              => /\ ~out.ok /\ out.steps = <<"ffprobe">>
                 /\ out.message = <<"invalid video duration: ">>
                                      \o IntToStr(inp.probe.duration) \o <<"s">>
        /\ inp.probe.kind = "error"
              => /\ ~out.ok /\ out.steps = <<"ffprobe">>
                 /\ IsTruncated(out.message, <<"ffprobe check failed: ">>,
                                inp.probe.text, 80)

\* C4 witness: the three outcomes on videos that would decode well, the
\* failed probe with a diagnostic longer than 80 characters.
C4_Witness ==
    phase = "checked" /\ inp.probe.kind = "error" /\ Len(inp.probe.text) > 80
        /\ inp.open = "opened" /\ inp.frame_count > 0 /\ ~out.ok

\* ---------------------------------------------------------------- C10
\* The frame indices claimed for a video of n frames.
ClaimedFrames(n) ==
    << 0, IF n \div 2 < 100 THEN n \div 2 ELSE 100, IF n - 5 > 0 THEN n - 5 ELSE 0 >>

\* The reads that fail, in order.
FailingReads == {i \in 1..3 : inp.reads[i] # "ok"}

FirstFailing == CHOOSE i \in FailingReads : \A j \in FailingReads : i <= j

ReleasedAtExit(st) ==
    /\ Count(st, "acquire") = Count(st, "release")
    /\ Count(st, "acquire") <= 1
    /\ Count(st, "acquire") = 1 => st[Len(st)] = "release"
    /\ \A i, j \in 1..Len(st) : st[i] = "acquire" /\ st[j] = "release" => i < j

\* C5: check_video_integrity releases the decode handle it acquired before
\* it returns, on every exit path; no handle is open when run_checks begins
\* the check of a file, nor after its last.
C5_HandleReleased ==
    /\ phase = "checked" => ReleasedAtExit(out.steps)
    /\ phase # "checked"
          => handles = 0 /\ \A i \in 1..Len(open_at_start) : open_at_start[i] = 0

\* C5 witness: a read raised after the handle was acquired.
C5_Witness ==
    phase = "checked" /\ inp.reads[2] = "raise" /\ inp.reads[1] = "ok"
        /\ Count(out.steps, "acquire") = 1 /\ Count(out.steps, "release") = 1

\* The checker, and check_video_integrity on its own.
SpecHandles == (Init \/ InitVideo) /\ [][Next \/ NextVideo]_vars

====
